---------------------------- MODULE Spec2Model ----------------------------
(***************************************************************************)
(* Model of lib/zcash/transaction.py: the Zcash transaction codec          *)
(* (G1/G2 points, proof, JoinSplit descriptor, transaction envelope) and   *)
(* the lazily parsed ZcashTransaction object.                              *)
(*                                                                         *)
(* Data representation                                                     *)
(*   byte string  : sequence of 0..255                                     *)
(*   hex string   : sequence of hex digits 0..15 (two per byte)            *)
(*   Python int   : [neg, mag] with mag the little-endian base-256 digits  *)
(*                  of the magnitude, no trailing zero digit (canonical,   *)
(*                  so record equality is numeric equality; unbounded)     *)
(*   dict         : a function from the keys (a record)                    *)
(*   None / value : None, Some(v)                                          *)
(*   exception    : the stream carries the first exception raised (exc);   *)
(*                  every later read is skipped, and the caller discards   *)
(*                  the partial result, as a Python raise does             *)
(*                                                                         *)
(* A parser that fills a dict field by field is written as the table of    *)
(* its fields, in the order of its statements, read by read_fields.        *)
(***************************************************************************)
EXTENDS Integers, Sequences, FiniteSets, TLC

VARIABLES
    raw,                \* self.raw: None or the hex string
    _inputs,            \* self._inputs
    _outputs,           \* self._outputs
    locktime,           \* self.locktime
    version,            \* self.version
    _joinsplits,        \* self._joinsplits
    joinSplitPubKey,    \* self.joinSplitPubKey
    joinSplitSig,       \* self.joinSplitSig
    call,               \* the last completed call on the object and its outcome
    decodes,            \* how many times deserialize(raw) has run on self.raw
    pc,                 \* per thread: the line a caller of deserialize()/joinsplits() is at
    local_d,            \* per thread: the local d of ZcashTransaction.deserialize
    point               \* point codec harness: leading byte, parsed point, re-encoding

vars == <<raw, _inputs, _outputs, locktime, version, _joinsplits,
          joinSplitPubKey, joinSplitSig, call, decodes, pc, local_d, point>>

fields == <<_inputs, _outputs, locktime, version, _joinsplits,
            joinSplitPubKey, joinSplitSig>>

-----------------------------------------------------------------------------
(* Option values and Python ints *)

None == [is_none |-> TRUE]

Some(v) == [is_none |-> FALSE, v |-> v]

RECURSIVE StripZeros(_)
StripZeros(bs) ==
    IF bs = <<>> THEN <<>>
    ELSE IF bs[Len(bs)] = 0 THEN StripZeros(SubSeq(bs, 1, Len(bs) - 1))
    ELSE bs

RECURSIVE Digits256(_)
Digits256(n) == IF n = 0 THEN <<>> ELSE <<n % 256>> \o Digits256(n \div 256)

\* the Python int of a natural number of the model
PyInt(n) == [neg |-> FALSE, mag |-> Digits256(n)]

Complement(bs) == [i \in 1..Len(bs) |-> 255 - bs[i]]

RECURSIVE Increment(_)
Increment(bs) ==
    IF bs = <<>> THEN <<>>
    ELSE IF bs[1] = 255 THEN <<0>> \o Increment(Tail(bs))
    ELSE <<bs[1] + 1>> \o Tail(bs)

\* two's complement negation at the width of bs
Negate(bs) == Increment(Complement(bs))

Pad(bs, n) == bs \o [i \in 1..(n - Len(bs)) |-> 0]

RECURSIVE BitAnd(_, _)
BitAnd(a, b) ==
    IF a = 0 \/ b = 0 THEN 0
    ELSE (a % 2) * (b % 2) + 2 * BitAnd(a \div 2, b \div 2)

RECURSIVE BitOr(_, _)
BitOr(a, b) ==
    IF a = 0 THEN b
    ELSE IF b = 0 THEN a
    ELSE (IF a % 2 = 1 \/ b % 2 = 1 THEN 1 ELSE 0) + 2 * BitOr(a \div 2, b \div 2)

\* i >= k for a Python int i and a natural k < 256
IntGE(i, k) ==
    ~i.neg /\ (k = 0 \/ Len(i.mag) > 1 \/ (Len(i.mag) = 1 /\ i.mag[1] >= k))

-----------------------------------------------------------------------------
(* electrum.bitcoin: bfh, bh2u, int_to_hex, var_int *)

\* bytes.fromhex fails on an odd number of digits
bfh_ok(h) == Len(h) % 2 = 0

bfh(h) == [i \in 1..(Len(h) \div 2) |-> 16 * h[2 * i - 1] + h[2 * i]]

bh2u(bs) ==
    [i \in 1..(2 * Len(bs)) |->
        IF i % 2 = 1 THEN bs[(i + 1) \div 2] \div 16 ELSE bs[i \div 2] % 16]

\* little-endian, `length` bytes; a negative int in two's complement
int_to_bytes(i, length) ==
    IF i.neg THEN Negate(Pad(i.mag, length)) ELSE Pad(i.mag, length)

int_to_hex(i, length) == bh2u(int_to_bytes(i, length))

var_int(i) ==
    IF i < 253 THEN int_to_hex(PyInt(i), 1)
    ELSE IF i <= 65535 THEN <<15, 13>> \o int_to_hex(PyInt(i), 2)
    ELSE <<15, 14>> \o int_to_hex(PyInt(i), 4)

-----------------------------------------------------------------------------
(* electrum.transaction.BCDataStream: a byte buffer and a read cursor.     *)
(* A read returns [val, vds]: the value and the stream after it.           *)

BCDataStream(bs) == [input |-> bs, read_cursor |-> 0, exc |-> ""]

Raise(vds, e) == IF vds.exc = "" THEN [vds EXCEPT !.exc = e] ELSE vds

read_bytes(vds, length) ==
    IF vds.exc # "" THEN [val |-> <<>>, vds |-> vds]
    ELSE IF vds.read_cursor + length > Len(vds.input)
    THEN [val |-> <<>>, vds |-> Raise(vds, "TruncatedInput")]
    ELSE [val |-> SubSeq(vds.input, vds.read_cursor + 1, vds.read_cursor + length),
          vds |-> [vds EXCEPT !.read_cursor = @ + length]]

from_unsigned(bs) == [neg |-> FALSE, mag |-> StripZeros(bs)]

from_signed(bs) ==
    IF bs # <<>> /\ bs[Len(bs)] >= 128
    THEN [neg |-> TRUE, mag |-> StripZeros(Negate(bs))]
    ELSE from_unsigned(bs)

unpack_signed(r) == [val |-> from_signed(r.val), vds |-> r.vds]

unpack_unsigned(r) == [val |-> from_unsigned(r.val), vds |-> r.vds]

read_int32(vds) == unpack_signed(read_bytes(vds, 4))

read_uint32(vds) == unpack_unsigned(read_bytes(vds, 4))

read_int64(vds) == unpack_signed(read_bytes(vds, 8))

\* a count that does not fit two bytes exceeds every buffer of the model and
\* is returned saturated at HugeCount
HugeCount == 65536

\* the count held by the bytes r read after the size byte
compact_size_wide(r) ==
    [val |-> IF r.vds.exc # "" THEN 0
             ELSE IF StripZeros(SubSeq(r.val, 3, Len(r.val))) = <<>>
             THEN r.val[1] + 256 * r.val[2]
             ELSE HugeCount,
     vds |-> r.vds]

\* the count, given the size byte r
compact_size_of(r) ==
    IF r.vds.exc # "" THEN [val |-> 0, vds |-> r.vds]
    ELSE IF r.val[1] < 253 THEN [val |-> r.val[1], vds |-> r.vds]
    ELSE compact_size_wide(
             read_bytes(r.vds, IF r.val[1] = 253 THEN 2
                               ELSE IF r.val[1] = 254 THEN 4 ELSE 8))

read_compact_size(vds) == compact_size_of(read_bytes(vds, 1))

-----------------------------------------------------------------------------
(* Zcash constants *)

G1_PREFIX_MASK == 2

G2_PREFIX_MASK == 10

ZC_NUM_JS_INPUTS == 2

ZC_NUM_JS_OUTPUTS == 2

ZC_NOTEPLAINTEXT_LEADING == 1

ZC_V_SIZE == 8

ZC_RHO_SIZE == 32

ZC_R_SIZE == 32

ZC_MEMO_SIZE == 512

ZC_NOTEPLAINTEXT_SIZE ==
    ZC_NOTEPLAINTEXT_LEADING + ZC_V_SIZE + ZC_RHO_SIZE + ZC_R_SIZE + ZC_MEMO_SIZE

NOTEENCRYPTION_AUTH_BYTES == 16

ZC_NOTECIPHERTEXT_SIZE == ZC_NOTEPLAINTEXT_SIZE + NOTEENCRYPTION_AUTH_BYTES

-----------------------------------------------------------------------------
(* Decoding: the points *)

\* leading_byte & (~1), on a byte
\* leading_byte & 0xFD, the mask that clears bit 1 and keeps bit 0
ClearLowBit_0xFD(leading_byte) == BitAnd(leading_byte, 253)

ClearLowBit(leading_byte) == BitAnd(leading_byte, 255 - 1)

\* the stream after the check of the leading byte r against the marker
check_lead(r, mask, message) ==
    IF r.vds.exc = "" /\ ClearLowBit(r.val[1]) # mask
    THEN Raise(r.vds, message)
    ELSE r.vds

\* leading_byte & 1
LowBit(r) == IF r.vds.exc = "" THEN BitAnd(r.val[1], 1) ELSE 0

g1_point(leading_byte, x) ==
    [val |-> [y_lsb |-> LowBit(leading_byte), x |-> x.val], vds |-> x.vds]

g1_of_lead(leading_byte) ==
    g1_point(leading_byte,
             read_bytes(check_lead(leading_byte, G1_PREFIX_MASK,
                                   "ValueError: lead byte of G1 point not recognized"),
                        32))

parse_g1(vds) == g1_of_lead(read_bytes(vds, 1))

g2_point(leading_byte, x) ==
    [val |-> [y_gt |-> LowBit(leading_byte), x |-> x.val], vds |-> x.vds]

g2_of_lead(leading_byte) ==
    g2_point(leading_byte,
             read_bytes(check_lead(leading_byte, G2_PREFIX_MASK,
                                   "ValueError: lead byte of G2 point not recognized"),
                        64))

parse_g2(vds) == g2_of_lead(read_bytes(vds, 1))

-----------------------------------------------------------------------------
(* Decoding: the tables of fields *)

Int32(name) == [name |-> name, kind |-> "int32"]

UInt32(name) == [name |-> name, kind |-> "uint32"]

Int64(name) == [name |-> name, kind |-> "int64"]

Bytes(name, size) == [name |-> name, kind |-> "bytes", size |-> size]

\* a compact size, then that many bytes
VarBytes(name) == [name |-> name, kind |-> "var_bytes"]

\* [vds.read_bytes(size) for i in range(count)]
BytesList(name, count, size) ==
    [name |-> name, kind |-> "bytes_list", count |-> count, size |-> size]

G1(name) == [name |-> name, kind |-> "g1"]

G2(name) == [name |-> name, kind |-> "g2"]

Proof(name) == [name |-> name, kind |-> "proof"]

\* a compact size n, then [parse(vds) for i in range(n)]
Counted(name, elem) == [name |-> name, kind |-> "counted", elem |-> elem]

\* a key set without a read
Const(name, value) == [name |-> name, kind |-> "const", value |-> value]

\* parse_proof: lines 81-88
ProofFields ==
    << G1("g_A"), G1("g_A_prime"), G2("g_B"), G1("g_B_prime"),
       G1("g_C"), G1("g_C_prime"), G1("g_K"), G1("g_H") >>

\* parse_joinsplit: lines 94-103
JoinSplitFields ==
    << Int64("vpub_old"),
       Int64("vpub_new"),
       Bytes("anchor", 32),
       BytesList("nullifiers", ZC_NUM_JS_INPUTS, 32),
       BytesList("commitments", ZC_NUM_JS_OUTPUTS, 32),
       Bytes("onetimePubKey", 32),
       Bytes("randomSeed", 32),
       BytesList("macs", ZC_NUM_JS_INPUTS, 32),
       Proof("proof"),
       BytesList("ciphertexts", ZC_NUM_JS_OUTPUTS, ZC_NOTECIPHERTEXT_SIZE) >>

\* electrum.transaction.parse_input
InputFields ==
    << Bytes("prevout_hash", 32), UInt32("prevout_n"), VarBytes("scriptSig"),
       UInt32("sequence") >>

\* electrum.transaction.parse_output
OutputFields ==
    << Int64("value"), VarBytes("address"), Const("type", "script") >>

\* deserialize: lines 111-116
HeaderFields ==
    << Int32("version"),
       Counted("inputs", "input"),
       Counted("outputs", "output"),
       UInt32("lockTime") >>

\* deserialize: line 119
JoinSplitsField == << Counted("joinsplits", "joinsplit") >>

\* deserialize: lines 121-122
JoinSplitKeyFields == << Bytes("joinSplitPubKey", 32), Bytes("joinSplitSig", 64) >>

ElemFields(elem) ==
    CASE elem = "input" -> InputFields
      [] elem = "output" -> OutputFields
      [] elem = "joinsplit" -> JoinSplitFields

read_bytes_of(n) == read_bytes(n.vds, n.val)

RECURSIVE read_fields(_, _, _)
RECURSIVE read_list(_, _, _, _)
RECURSIVE read_bytes_list(_, _, _, _)

\* the read of one field f
read_field(vds, f) ==
    CASE f.kind = "int32" -> read_int32(vds)
      [] f.kind = "uint32" -> read_uint32(vds)
      [] f.kind = "int64" -> read_int64(vds)
      [] f.kind = "bytes" -> read_bytes(vds, f.size)
      [] f.kind = "var_bytes" -> read_bytes_of(read_compact_size(vds))
      [] f.kind = "bytes_list" -> read_bytes_list(vds, f.count, f.size, <<>>)
      [] f.kind = "g1" -> parse_g1(vds)
      [] f.kind = "g2" -> parse_g2(vds)
      [] f.kind = "proof" -> read_fields(vds, ProofFields, <<>>)
      [] f.kind = "counted" -> read_list(read_compact_size(vds), 0, f.elem, <<>>)
      [] f.kind = "const" -> [val |-> f.value, vds |-> vds]

\* d with d[name] set to the value read by r, and the stream after it
store(d, name, r) == [val |-> d @@ (name :> r.val), vds |-> r.vds]

\* the dict d filled with the fields of fs, in order
read_fields_from(r, fs) == read_fields(r.vds, fs, r.val)

read_fields(vds, fs, d) ==
    IF fs = <<>> THEN [val |-> d, vds |-> vds]
    ELSE read_fields_from(store(d, fs[1].name, read_field(vds, fs[1])), Tail(fs))

append(acc, r) == [val |-> Append(acc, r.val), vds |-> r.vds]

read_bytes_list_from(r, count, size) == read_bytes_list(r.vds, count, size, r.val)

read_bytes_list(vds, count, size, acc) ==
    IF count = 0 \/ vds.exc # "" THEN [val |-> acc, vds |-> vds]
    ELSE read_bytes_list_from(append(acc, read_bytes(vds, size)), count - 1, size)

read_list_from(r, n, i, elem) ==
    read_list([val |-> n, vds |-> r.vds], i, elem, r.val)

\* elements i, i+1, ... of a list of n.val elements, after the count n
read_list(n, i, elem, acc) ==
    IF i >= n.val \/ n.vds.exc # "" THEN [val |-> acc, vds |-> n.vds]
    ELSE read_list_from(append(acc, read_fields(n.vds, ElemFields(elem), <<>>)),
                        n.val, i + 1, elem)

parse_proof(vds) == read_fields(vds, ProofFields, <<>>)

parse_joinsplit(vds) == read_fields(vds, JoinSplitFields, <<>>)

parse_input(vds) == read_fields(vds, InputFields, <<>>)

parse_output(vds, i) == read_fields(vds, OutputFields, <<>>)

-----------------------------------------------------------------------------
(* Decoding: the transaction *)

\* version >= 1 as the guard
HasJoinSplitSection_from_1(v) == IntGE(v, 1)

\* version >= 2, the guard of the JoinSplit section
HasJoinSplitSection(v) == IntGE(v, 2)

\* lines 120-122: the key and the signature, after the descriptors
deserialize_keys(r) ==
    IF r.val.joinsplits # <<>>
    THEN read_fields(r.vds, JoinSplitKeyFields, r.val)
    ELSE r

\* lines 117-122: the JoinSplit section, after the four fields of the header
deserialize_section(r) ==
    IF HasJoinSplitSection(r.val.version)
    THEN deserialize_keys(read_fields(r.vds, JoinSplitsField, r.val))
    ELSE r

\* the outcome of deserialize, given the dict and the stream after the last read
deserialize_outcome(r) ==
    IF r.vds.exc # "" THEN [raised |-> r.vds.exc, d |-> <<>>]
    ELSE [raised |-> "", d |-> r.val]

\* lines 108-122: the dict and the stream after the last read
decode_stream(rawhex) ==
    deserialize_section(read_fields(BCDataStream(bfh(rawhex)), HeaderFields, <<>>))

\* deserialize(raw): [raised, d]; d is the dict when raised = ""
deserialize(rawhex) ==
    IF ~bfh_ok(rawhex) THEN [raised |-> "ValueError: non-hexadecimal", d |-> <<>>]
    ELSE deserialize_outcome(decode_stream(rawhex))

\* d.get(key, b''), a default for the missing key
dict_get_default_empty(d, key) == IF key \in DOMAIN d THEN Some(d[key]) ELSE Some(<<>>)

\* d.get(key)
dict_get(d, key) == IF key \in DOMAIN d THEN Some(d[key]) ELSE None

-----------------------------------------------------------------------------
(* electrum.transaction: the serializers of the base-layer records *)

\* the script a signature-complete input carries; a placeholder of the same
\* size under estimate_size
input_script(txin, estimate_size) ==
    IF estimate_size THEN [i \in 1..Len(txin.scriptSig) |-> 0] ELSE txin.scriptSig

serialize_input(txin, script) ==
    bh2u(txin.prevout_hash) \o int_to_hex(txin.prevout_n, 4)
        \o var_int(Len(script)) \o bh2u(script) \o int_to_hex(txin.sequence, 4)

\* an output is the cached (type, address, value) triple
serialize_output(o) ==
    int_to_hex(o[3], 8) \o var_int(Len(o[2])) \o bh2u(o[2])

-----------------------------------------------------------------------------
(* Encoding *)

serialize_g1(p) ==
    int_to_hex(PyInt(IF p.y_lsb # 0 THEN BitOr(G1_PREFIX_MASK, 1) ELSE G1_PREFIX_MASK), 1)
        \o bh2u(p.x)

\* serialize_g2 with the marker of serialize_g1
serialize_g2_G1_marker(p) ==
    int_to_hex(PyInt(IF p.y_gt # 0 THEN BitOr(G1_PREFIX_MASK, 1) ELSE G1_PREFIX_MASK), 1)
        \o bh2u(p.x)

serialize_g2(p) ==
    int_to_hex(PyInt(IF p.y_gt # 0 THEN BitOr(G2_PREFIX_MASK, 1) ELSE G2_PREFIX_MASK), 1)
        \o bh2u(p.x)

serialize_proof(proof) ==
    serialize_g1(proof.g_A) \o serialize_g1(proof.g_A_prime)
        \o serialize_g2(proof.g_B) \o serialize_g1(proof.g_B_prime)
        \o serialize_g1(proof.g_C) \o serialize_g1(proof.g_C_prime)
        \o serialize_g1(proof.g_K) \o serialize_g1(proof.g_H)

\* ''.join([bh2u(b) for b in bl])
RECURSIVE join_bh2u(_)
join_bh2u(bl) == IF bl = <<>> THEN <<>> ELSE bh2u(Head(bl)) \o join_bh2u(Tail(bl))

serialize_joinsplit(jsdesc) ==
    int_to_hex(jsdesc.vpub_old, 8) \o int_to_hex(jsdesc.vpub_new, 8)
        \o bh2u(jsdesc.anchor)
        \o join_bh2u(jsdesc.nullifiers) \o join_bh2u(jsdesc.commitments)
        \o bh2u(jsdesc.onetimePubKey) \o bh2u(jsdesc.randomSeed)
        \o join_bh2u(jsdesc.macs)
        \o serialize_proof(jsdesc.proof)
        \o join_bh2u(jsdesc.ciphertexts)

RECURSIVE join_inputs(_, _)
join_inputs(inputs, estimate_size) ==
    IF inputs = <<>> THEN <<>>
    ELSE serialize_input(Head(inputs), input_script(Head(inputs), estimate_size))
            \o join_inputs(Tail(inputs), estimate_size)

RECURSIVE join_outputs(_)
join_outputs(outputs) ==
    IF outputs = <<>> THEN <<>>
    ELSE serialize_output(Head(outputs)) \o join_outputs(Tail(outputs))

RECURSIVE join_joinsplits(_)
join_joinsplits(joinsplits) ==
    IF joinsplits = <<>> THEN <<>>
    ELSE serialize_joinsplit(Head(joinsplits)) \o join_joinsplits(Tail(joinsplits))

-----------------------------------------------------------------------------
(* The Transaction object *)

Self ==
    [raw |-> raw, _inputs |-> _inputs, _outputs |-> _outputs,
     locktime |-> locktime, version |-> version, _joinsplits |-> _joinsplits,
     joinSplitPubKey |-> joinSplitPubKey, joinSplitSig |-> joinSplitSig]

\* the outcome of a method call: the object after it, the exception raised
\* ("" for none), the value returned, and the number of decodes it ran
Result(self, raised, ret, n) ==
    [self |-> self, raised |-> raised, ret |-> ret, decodes |-> n]

\* Transaction.__init__ followed by the three assignments of the subclass
ZcashTransaction__init__(rawarg) ==
    [raw |-> rawarg, _inputs |-> None, _outputs |-> None,
     locktime |-> PyInt(0), version |-> PyInt(1),
     _joinsplits |-> None, joinSplitPubKey |-> None, joinSplitSig |-> None]

\* "if self._inputs:", the truth value in place of the test against None
CachePopulated_truthy(self) == ~self._inputs.is_none /\ self._inputs.v # <<>>

\* self._inputs is not None
CachePopulated(self) == ~self._inputs.is_none

\* [(x['type'], x['address'], x['value']) for x in d['outputs']]
project_outputs(outputs) ==
    [i \in 1..Len(outputs) |-> <<outputs[i].type, outputs[i].address, outputs[i].value>>]

\* the assignments of lines 145-152
populate(self, d) ==
    [self EXCEPT !._inputs = Some(d.inputs),
                 !._outputs = Some(project_outputs(d.outputs)),
                 !.locktime = d.lockTime,
                 !.version = d.version,
                 !._joinsplits = dict_get(d, "joinsplits"),
                 !.joinSplitPubKey = dict_get(d, "joinSplitPubKey"),
                 !.joinSplitSig = dict_get(d, "joinSplitSig")]

\* self._inputs = [] ahead of the decode, and no rollback when it raises
deserialize_store_inputs_first(self, r) ==
    IF r.raised # "" THEN Result([self EXCEPT !._inputs = Some(<<>>)], r.raised, None, 1)
    ELSE Result(populate(self, r.d), "", Some(r.d), 1)

\* lines 144-153, given the outcome r of deserialize(self.raw)
deserialize_store(self, r) ==
    IF r.raised # "" THEN Result(self, r.raised, None, 1)
    ELSE Result(populate(self, r.d), "", Some(r.d), 1)

ZcashTransaction_deserialize(self) ==
    IF self.raw.is_none THEN Result(self, "", None, 0)
    ELSE IF CachePopulated(self) THEN Result(self, "", None, 0)
    ELSE deserialize_store(self, deserialize(self.raw.v))

\* return self._joinsplits, after the call r of self.deserialize()
return_joinsplits(r) ==
    Result(r.self, r.raised, IF r.raised = "" THEN r.self._joinsplits ELSE None,
           r.decodes)

\* joinsplits() that decodes the raw bytes on every call
ZcashTransaction_joinsplits_always_decodes(self) ==
    IF self.raw.is_none THEN Result(self, "", self._joinsplits, 0)
    ELSE return_joinsplits(deserialize_store(self, deserialize(self.raw.v)))

ZcashTransaction_joinsplits(self) ==
    IF self._joinsplits.is_none
    THEN return_joinsplits(ZcashTransaction_deserialize(self))
    ELSE Result(self, "", self._joinsplits, 0)

return_inputs(r) ==
    Result(r.self, r.raised, IF r.raised = "" THEN r.self._inputs ELSE None, r.decodes)

\* Transaction.inputs of the base class
Transaction_inputs(self) ==
    IF self._inputs.is_none
    THEN return_inputs(ZcashTransaction_deserialize(self))
    ELSE Result(self, "", self._inputs, 0)

return_outputs(r) ==
    Result(r.self, r.raised, IF r.raised = "" THEN r.self._outputs ELSE None, r.decodes)

\* Transaction.outputs of the base class
Transaction_outputs(self) ==
    IF self._outputs.is_none
    THEN return_outputs(ZcashTransaction_deserialize(self))
    ELSE Result(self, "", self._outputs, 0)

\* lines 206-212: the return value, given the call rj of self.joinsplits(),
\* the bytes emitted before the section and the decodes run before it
serialize_section(rj, head, n) ==
    IF rj.raised # "" THEN Result(rj.self, rj.raised, None, n + rj.decodes)
    ELSE IF rj.ret.is_none THEN Result(rj.self, "TypeError", None, n + rj.decodes)
    ELSE IF rj.ret.v # <<>>
    THEN IF rj.self.joinSplitPubKey.is_none \/ rj.self.joinSplitSig.is_none
         THEN Result(rj.self, "TypeError", None, n + rj.decodes)
         ELSE Result(rj.self, "",
                     Some(head \o var_int(Len(rj.ret.v)) \o join_joinsplits(rj.ret.v)
                          \o bh2u(rj.self.joinSplitPubKey.v)
                          \o bh2u(rj.self.joinSplitSig.v)),
                     n + rj.decodes)
    ELSE Result(rj.self, "",
                Some(head \o var_int(Len(rj.ret.v)) \o join_joinsplits(rj.ret.v)),
                n + rj.decodes)

\* nVersion + txins + txouts + nLocktime
serialize_head(nVersion, inputs, outputs, nLocktime, estimate_size) ==
    nVersion \o var_int(Len(inputs)) \o join_inputs(inputs, estimate_size)
        \o var_int(Len(outputs)) \o join_outputs(outputs) \o nLocktime

\* lines 202-214, given the calls ri of self.inputs() and ro of self.outputs()
serialize_body(ri, ro, nVersion, nLocktime, estimate_size) ==
    IF ro.raised # "" THEN Result(ro.self, ro.raised, None, ri.decodes + ro.decodes)
    ELSE IF ri.ret.is_none \/ ro.ret.is_none
    THEN Result(ro.self, "TypeError", None, ri.decodes + ro.decodes)
    ELSE IF IntGE(ro.self.version, 2)
    THEN serialize_section(
             ZcashTransaction_joinsplits(ro.self),
             serialize_head(nVersion, ri.ret.v, ro.ret.v, nLocktime, estimate_size),
             ri.decodes + ro.decodes)
    ELSE Result(ro.self, "",
                Some(serialize_head(nVersion, ri.ret.v, ro.ret.v, nLocktime,
                                    estimate_size)),
                ri.decodes + ro.decodes)

\* lines 200-214, given nVersion and nLocktime and the call ri of self.inputs()
serialize_fields(nVersion, nLocktime, ri, estimate_size) ==
    IF ri.raised # "" THEN Result(ri.self, ri.raised, None, ri.decodes)
    ELSE serialize_body(ri, Transaction_outputs(ri.self), nVersion, nLocktime,
                        estimate_size)

\* the witness test made after the fields are serialized
reject_witness(r) == Result(r.self, "ValueError: No wtxid for Zcash", None, r.decodes)

ZcashTransaction_serialize_late_witness_test(self, estimate_size, witness) ==
    IF witness
    THEN reject_witness(serialize_fields(int_to_hex(self.version, 4),
                                         int_to_hex(self.locktime, 4),
                                         Transaction_inputs(self), estimate_size))
    ELSE serialize_fields(int_to_hex(self.version, 4), int_to_hex(self.locktime, 4),
                          Transaction_inputs(self), estimate_size)

ZcashTransaction_serialize(self, estimate_size, witness) ==
    IF witness THEN Result(self, "ValueError: No wtxid for Zcash", None, 0)
    ELSE serialize_fields(int_to_hex(self.version, 4), int_to_hex(self.locktime, 4),
                          Transaction_inputs(self), estimate_size)

-----------------------------------------------------------------------------
(* Raw transactions the object is constructed from *)

MaxInputs == 1

MaxOutputs == 1

MaxJoinSplits == 1

\* at most this many decodes of one object's raw bytes are followed
MaxDecodes == 2

\* truncations: the last 1..FineCuts hex digits, and every multiple of
\* CutStep hex digits
FineCuts == 2

CutStep == 163

Fill(n, b) == [i \in 1..n |-> b]

VersionBytes ==
    { <<1, 0, 0, 0>>, <<2, 0, 0, 0>>, <<0, 0, 0, 0>>,
      <<255, 255, 255, 127>>, <<255, 255, 255, 255>>, <<2, 0, 0, 128>> }

LockTimeBytes == { <<0, 0, 0, 0>>, <<64, 226, 1, 192>> }

VpubBytes ==
    { <<0, 0, 0, 0, 0, 0, 0, 0>>, <<1, 2, 3, 4, 5, 6, 7, 136>>,
      <<255, 255, 255, 255, 255, 255, 255, 255>> }

GenInput(k) ==
    Fill(32, 16 + k) \o <<k, 0, 0, 0>> \o <<1, 81>> \o <<255, 255, 255, 254>>

GenOutput(k) == <<k, 0, 0, 0, 0, 0, 0, 128>> \o <<2, 82, 83>>

RECURSIVE GenInputs(_)
GenInputs(n) == IF n = 0 THEN <<>> ELSE GenInputs(n - 1) \o GenInput(n)

RECURSIVE GenOutputs(_)
GenOutputs(n) == IF n = 0 THEN <<>> ELSE GenOutputs(n - 1) \o GenOutput(n)

\* the leading byte of point j of a proof: its marker and flag, or the
\* corrupted byte
GenLead(j, flags, bad) ==
    IF bad.pos = j THEN bad.byte
    ELSE (IF j = 3 THEN G2_PREFIX_MASK ELSE G1_PREFIX_MASK)
            + (IF flags[j] THEN 1 ELSE 0)

GenProof(flags, bad) ==
    <<GenLead(1, flags, bad)>> \o Fill(32, 161)
        \o <<GenLead(2, flags, bad)>> \o Fill(32, 162)
        \o <<GenLead(3, flags, bad)>> \o Fill(64, 163)
        \o <<GenLead(4, flags, bad)>> \o Fill(32, 164)
        \o <<GenLead(5, flags, bad)>> \o Fill(32, 165)
        \o <<GenLead(6, flags, bad)>> \o Fill(32, 166)
        \o <<GenLead(7, flags, bad)>> \o Fill(32, 167)
        \o <<GenLead(8, flags, bad)>> \o Fill(32, 168)

GenJoinSplit(vpub, flags, bad) ==
    vpub \o [i \in 1..8 |-> vpub[9 - i]]
        \o Fill(32, 33)
        \o Fill(32, 34) \o Fill(32, 35)
        \o Fill(32, 36) \o Fill(32, 37)
        \o Fill(32, 38) \o Fill(32, 39)
        \o Fill(32, 40) \o Fill(32, 41)
        \o GenProof(flags, bad)
        \o Fill(ZC_NOTECIPHERTEXT_SIZE, 42) \o Fill(ZC_NOTECIPHERTEXT_SIZE, 43)

NoBad == [pos |-> 0, byte |-> 0]

\* k JoinSplit descriptors, the last of njs carrying the corrupted marker, if any
RECURSIVE GenJoinSplits(_, _, _, _, _)
GenJoinSplits(k, njs, vpub, flags, bad) ==
    IF k = 0 THEN <<>>
    ELSE GenJoinSplits(k - 1, njs, vpub, flags, bad)
            \o GenJoinSplit(vpub, flags, IF k = njs THEN bad ELSE NoBad)

\* what follows the locktime: nothing (njs = -1), or a JoinSplit section of
\* njs descriptors
GenSection(njs, vpub, flags, bad) ==
    IF njs < 0 THEN <<>>
    ELSE IF njs = 0 THEN <<0>>
    ELSE <<njs>> \o GenJoinSplits(njs, njs, vpub, flags, bad)
            \o Fill(32, 44) \o Fill(64, 45)

GenTx(p) ==
    p.ver \o <<p.n_vin>> \o GenInputs(p.n_vin)
          \o <<p.n_vout>> \o GenOutputs(p.n_vout)
          \o p.lock \o GenSection(p.njs, p.vpub, p.flags, p.bad)

FlagSets ==
    { [j \in 1..8 |-> FALSE], [j \in 1..8 |-> TRUE], [j \in 1..8 |-> j % 2 = 1] }

\* a byte that is no G1 marker at a G1 position, no G2 marker at the G2 position
BadMarkers ==
    { [pos |-> j, byte |-> b] : j \in (1..8) \ {3}, b \in {4, 11} }
        \cup { [pos |-> 3, byte |-> b] : b \in {4, 2} }

\* the transactions without a JoinSplit descriptor
PlainParams ==
    [ver : VersionBytes, n_vin : 0..MaxInputs, n_vout : 0..MaxOutputs,
     lock : LockTimeBytes, njs : {-1, 0},
     vpub : {<<0, 0, 0, 0, 0, 0, 0, 0>>}, flags : {[j \in 1..8 |-> FALSE]},
     bad : {NoBad}]

\* the transactions with JoinSplit descriptors: every version with every
\* vpub, every choice of point flags, and one corrupted point marker
ShieldedParams ==
    [ver : VersionBytes, n_vin : {MaxInputs}, n_vout : {MaxOutputs},
     lock : {<<64, 226, 1, 192>>}, njs : 1..MaxJoinSplits,
     vpub : VpubBytes, flags : {[j \in 1..8 |-> j % 2 = 1]}, bad : {NoBad}]
    \cup
    [ver : {<<2, 0, 0, 0>>}, n_vin : {0}, n_vout : {MaxOutputs},
     lock : {<<0, 0, 0, 0>>}, njs : 1..MaxJoinSplits,
     vpub : {<<1, 2, 3, 4, 5, 6, 7, 136>>}, flags : FlagSets, bad : {NoBad}]
    \cup
    [ver : {<<2, 0, 0, 0>>}, n_vin : {MaxInputs}, n_vout : {0},
     lock : {<<0, 0, 0, 0>>}, njs : 1..MaxJoinSplits,
     vpub : {<<1, 2, 3, 4, 5, 6, 7, 136>>}, flags : {[j \in 1..8 |-> j % 2 = 1]},
     bad : BadMarkers]

Cuts(h) ==
    { c \in 0..Len(h) : c <= FineCuts \/ c % CutStep = 0 }

Truncate(h, c) == SubSeq(h, 1, Len(h) - c)

\* the well-formed transaction that is also given truncated
CutParams ==
    { q \in ShieldedParams : q.bad = NoBad /\ q.n_vin = MaxInputs
                             /\ q.ver = <<2, 0, 0, 0>> /\ q.vpub[1] = 1
                             /\ q.njs = MaxJoinSplits }

\* the hex strings a transaction is constructed from
RawInputs ==
    { bh2u(GenTx(p)) : p \in PlainParams \cup ShieldedParams }
    \cup UNION { { Truncate(bh2u(GenTx(p)), c) : c \in Cuts(bh2u(GenTx(p))) } :
                 p \in CutParams }

-----------------------------------------------------------------------------
(* The object used by one caller at a time: every call runs to completion *)

Idle == [t \in {1, 2} |-> "idle"]

NoCall == [op |-> "init", estimate_size |-> FALSE, witness |-> FALSE,
           raised |-> "", ret |-> None, cold |-> TRUE]

Init ==
    /\ raw \in {None} \cup { Some(h) : h \in RawInputs }
    /\ _inputs = ZcashTransaction__init__(raw)._inputs
    /\ _outputs = ZcashTransaction__init__(raw)._outputs
    /\ locktime = ZcashTransaction__init__(raw).locktime
    /\ version = ZcashTransaction__init__(raw).version
    /\ _joinsplits = ZcashTransaction__init__(raw)._joinsplits
    /\ joinSplitPubKey = ZcashTransaction__init__(raw).joinSplitPubKey
    /\ joinSplitSig = ZcashTransaction__init__(raw).joinSplitSig
    /\ call = NoCall
    /\ decodes = 0
    /\ pc = Idle
    /\ local_d = [t \in {1, 2} |-> None]
    /\ point = None

\* the object and the record of the call after a call with outcome r
Return(r, op, estimate_size, witness) ==
    /\ decodes + r.decodes <= MaxDecodes
    /\ _inputs' = r.self._inputs
    /\ _outputs' = r.self._outputs
    /\ locktime' = r.self.locktime
    /\ version' = r.self.version
    /\ _joinsplits' = r.self._joinsplits
    /\ joinSplitPubKey' = r.self.joinSplitPubKey
    /\ joinSplitSig' = r.self.joinSplitSig
    /\ decodes' = decodes + r.decodes
    /\ call' = [op |-> op, estimate_size |-> estimate_size, witness |-> witness,
                raised |-> r.raised, ret |-> r.ret, cold |-> ~CachePopulated(Self)]
    /\ UNCHANGED <<raw, pc, local_d, point>>

Deserialize ==
    Return(ZcashTransaction_deserialize(Self), "deserialize", FALSE, FALSE)

Joinsplits ==
    Return(ZcashTransaction_joinsplits(Self), "joinsplits", FALSE, FALSE)

Serialize ==
    \E estimate_size \in BOOLEAN, witness \in BOOLEAN :
        Return(ZcashTransaction_serialize(Self, estimate_size, witness),
               "serialize", estimate_size, witness)

Next == Deserialize \/ Joinsplits \/ Serialize

Spec == Init /\ [][Next]_vars

-----------------------------------------------------------------------------
(* Properties of the object used by one caller at a time *)

\* the bytes of h are one transaction of the format and nothing else
WellFormed(h) ==
    /\ bfh_ok(h)
    /\ decode_stream(h).vds.exc = ""
    /\ decode_stream(h).vds.read_cursor = Len(h) \div 2

\* v < 2 for a Python int v
Below2(v) == v.neg \/ v.mag = <<>> \/ v.mag = <<1>>

Populated == ~raw.is_none /\ ~_inputs.is_none

C2_VersionGating ==
    /\ (Populated /\ Below2(version))
           => (_joinsplits = None /\ joinSplitPubKey = None /\ joinSplitSig = None)
    /\ (call.op = "deserialize" /\ ~call.ret.is_none /\ Below2(call.ret.v.version))
           => DOMAIN call.ret.v = {"version", "inputs", "outputs", "lockTime"}

C2_Witness ==
    /\ Populated /\ call.op = "deserialize" /\ ~call.ret.is_none
    /\ version.neg
    /\ _joinsplits = None
    /\ decode_stream(raw.v).vds.read_cursor + 96 < Len(raw.v) \div 2

DecodeFails(h) == ~bfh_ok(h) \/ decode_stream(h).vds.exc # ""

\* C4: a call that raises leaves every cached field as it was, and
\* deserialize() on a cold cache raises whenever the decode of the raw bytes
\* does
C4_FailedDecodeChangesNothing ==
    [][ /\ call'.raised # "" => UNCHANGED fields
        /\ (/\ call'.op = "deserialize" /\ ~raw.is_none /\ _inputs.is_none
            /\ DecodeFails(raw.v))
               => call'.raised # "" ]_vars

\* a decode that fails inside the trailing signature
C4_Witness ==
    /\ call.op = "deserialize" /\ call.raised = "TruncatedInput"
    /\ ~raw.is_none /\ WellFormed(raw.v \o <<0, 0>>)
    /\ _inputs = None /\ version = PyInt(1)

\* C5: deserialize() changes nothing and decodes nothing when the raw bytes
\* are absent or the cache is populated, and once the cache is populated no
\* deserialize() or joinsplits() call changes a cached field or decodes again
C5_IdempotentLazyParse ==
    [][ /\ (call'.op = "deserialize" /\ (raw.is_none \/ ~_inputs.is_none))
               => (UNCHANGED <<fields, decodes>> /\ call'.ret = None
                   /\ call'.raised = "")
        /\ (call'.op \in {"deserialize", "joinsplits"} /\ ~_inputs.is_none)
               => UNCHANGED <<fields, decodes>> ]_vars

\* joinsplits() on a populated version-1 transaction, whose _joinsplits is unset
C5_Witness ==
    /\ call.op = "joinsplits" /\ ~call.cold
    /\ Populated /\ _joinsplits = None /\ call.ret = None
    /\ decodes = 1

\* C7: serialize(witness=True) raises, returns nothing, and changes and
\* decodes nothing, for either value of estimate_size
C7_WitnessRejected ==
    [][ (call'.op = "serialize" /\ call'.witness)
            => (call'.raised # "" /\ call'.ret = None
                /\ UNCHANGED <<fields, decodes>>) ]_vars

C7_Witness ==
    /\ call.op = "serialize" /\ call.witness /\ call.estimate_size
    /\ call.cold /\ ~raw.is_none /\ WellFormed(raw.v)
    /\ _inputs = None /\ decodes = 0

C10_OrderIndependent ==
    (call.op = "serialize" /\ call.cold /\ call.raised = "" /\ ~call.witness)
        => call.ret = ZcashTransaction_serialize(Self, call.estimate_size, FALSE).ret

-----------------------------------------------------------------------------
(* The point codec alone: one encoded point is parsed, then serialized *)

XSize(group) == IF group = "g1" THEN 32 ELSE 64

InitPoint ==
    /\ raw = None
    /\ _inputs = ZcashTransaction__init__(raw)._inputs
    /\ _outputs = ZcashTransaction__init__(raw)._outputs
    /\ locktime = ZcashTransaction__init__(raw).locktime
    /\ version = ZcashTransaction__init__(raw).version
    /\ _joinsplits = ZcashTransaction__init__(raw)._joinsplits
    /\ joinSplitPubKey = ZcashTransaction__init__(raw).joinSplitPubKey
    /\ joinSplitSig = ZcashTransaction__init__(raw).joinSplitSig
    /\ call = NoCall /\ decodes = 0 /\ pc = Idle
    /\ local_d = [t \in {1, 2} |-> None]
    /\ \E group \in {"g1", "g2"}, lead \in 0..255, b \in {0, 255} :
           point = [stage |-> "bytes", group |-> group, lead |-> lead,
                    input |-> <<lead>> \o Fill(XSize(group), b),
                    r |-> None, out |-> None]

ParsePoint ==
    /\ point.stage = "bytes"
    /\ point' = [point EXCEPT
                   !.stage = "parsed",
                   !.r = IF point.group = "g1"
                         THEN parse_g1(BCDataStream(point.input))
                         ELSE parse_g2(BCDataStream(point.input))]
    /\ UNCHANGED <<raw, fields, call, decodes, pc, local_d>>

SerializePoint ==
    /\ point.stage = "parsed"
    /\ point.r.vds.exc = ""
    /\ point' = [point EXCEPT
                   !.stage = "serialized",
                   !.out = IF point.group = "g1"
                           THEN Some(serialize_g1(point.r.val))
                           ELSE Some(serialize_g2(point.r.val))]
    /\ UNCHANGED <<raw, fields, call, decodes, pc, local_d>>

NextPoint == ParsePoint \/ SerializePoint

SpecPoint == InitPoint /\ [][NextPoint]_vars

\* the two hex digits of a byte
HexOf(b) == <<b \div 16, b % 16>>

\* C8: for every leading byte 0..255, parse_g1 accepts exactly 0x02 (y_lsb 0)
\* and 0x03 (y_lsb 1) and parse_g2 exactly 0x0a (y_gt 0) and 0x0b (y_gt 1),
\* every other byte raises the ValueError of its group, and the serialization
\* of an accepted point starts with the leading byte it was parsed from
C8_MarkerCheck ==
    /\ (point.stage # "bytes" /\ point.group = "g1")
           => IF point.lead \in {2, 3}
              THEN /\ point.r.vds.exc = ""
                   /\ point.r.val.y_lsb = point.lead - 2
                   /\ point.r.val.x = SubSeq(point.input, 2, 33)
              ELSE point.r.vds.exc = "ValueError: lead byte of G1 point not recognized"
    /\ (point.stage # "bytes" /\ point.group = "g2")
           => IF point.lead \in {10, 11}
              THEN /\ point.r.vds.exc = ""
                   /\ point.r.val.y_gt = point.lead - 10
                   /\ point.r.val.x = SubSeq(point.input, 2, 65)
              ELSE point.r.vds.exc = "ValueError: lead byte of G2 point not recognized"
    /\ point.stage = "serialized"
           => /\ SubSeq(point.out.v, 1, 2) = HexOf(point.lead)
              /\ Len(point.out.v) = 2 * Len(point.input)
              /\ \A i \in 1..Len(point.input) :
                     SubSeq(point.out.v, 2 * i - 1, 2 * i) = HexOf(point.input[i])

C8_Witness ==
    /\ point.stage = "serialized" /\ point.group = "g2" /\ point.lead = 11
    /\ point.r.val.y_gt = 1
    /\ SubSeq(point.out.v, 1, 2) = <<0, 11>>

-----------------------------------------------------------------------------
(* Two threads calling deserialize() and joinsplits() on one object: a step
   is one line of the method a thread is in *)

\* calls one thread makes
MaxCalls == 1

Thread == {1, 2}

ThreadIdle == [line |-> "idle", method |-> "", how |-> "", ret |-> None, calls |-> 0]

\* transactions with one input and one output, version 1 and version 2, with
\* and without JoinSplit descriptors, and one that is truncated
ThreadParams ==
    { q \in PlainParams \cup ShieldedParams :
          /\ q.ver \in {<<1, 0, 0, 0>>, <<2, 0, 0, 0>>}
          /\ q.n_vin = MaxInputs /\ q.n_vout = MaxOutputs
          /\ q.lock # <<0, 0, 0, 0>>
          /\ q.bad = NoBad
          /\ (q.njs > 0 => q.vpub[1] = 1 /\ q.flags[1] /\ q.flags[2]) }

ThreadRaws ==
    { bh2u(GenTx(p)) : p \in ThreadParams }
    \cup { Truncate(bh2u(GenTx(p)), 2) : p \in { q \in ThreadParams : q.njs > 0 } }

InitThreads ==
    /\ raw \in {None} \cup { Some(h) : h \in ThreadRaws }
    /\ _inputs = ZcashTransaction__init__(raw)._inputs
    /\ _outputs = ZcashTransaction__init__(raw)._outputs
    /\ locktime = ZcashTransaction__init__(raw).locktime
    /\ version = ZcashTransaction__init__(raw).version
    /\ _joinsplits = ZcashTransaction__init__(raw)._joinsplits
    /\ joinSplitPubKey = ZcashTransaction__init__(raw).joinSplitPubKey
    /\ joinSplitSig = ZcashTransaction__init__(raw).joinSplitSig
    /\ call = NoCall /\ decodes = 0
    /\ pc = [t \in Thread |-> ThreadIdle]
    /\ local_d = [t \in Thread |-> None]
    /\ point = None

Goto(t, line) == pc' = [pc EXCEPT ![t].line = line]

\* deserialize() returns: to its caller, or to line 137 of joinsplits()
Leave(t, how) ==
    pc' = [pc EXCEPT ![t].how = how,
                     ![t].line = IF pc[t].method = "joinsplits" THEN "137" ELSE "idle"]

\* a thread calls deserialize() or joinsplits()
Enter(t) ==
    /\ pc[t].line = "idle"
    /\ pc[t].calls < MaxCalls
    /\ \E method \in {"deserialize", "joinsplits"} :
           pc' = [pc EXCEPT ![t] = [line |-> IF method = "joinsplits" THEN "135" ELSE "140",
                                    method |-> method, how |-> "", ret |-> None,
                                    calls |-> pc[t].calls + 1]]
    /\ UNCHANGED <<raw, fields, call, decodes, local_d, point>>

\* if self._joinsplits is None:
L135(t) ==
    /\ pc[t].line = "135"
    /\ Goto(t, IF _joinsplits.is_none THEN "140" ELSE "137")
    /\ UNCHANGED <<raw, fields, call, decodes, local_d, point>>

\* return self._joinsplits
L137(t) ==
    /\ pc[t].line = "137"
    /\ pc' = [pc EXCEPT ![t].line = "idle", ![t].ret = _joinsplits]
    /\ UNCHANGED <<raw, fields, call, decodes, local_d, point>>

\* if self.raw is None: return
L140(t) ==
    /\ pc[t].line = "140"
    /\ IF raw.is_none THEN Leave(t, "absent") ELSE Goto(t, "142")
    /\ UNCHANGED <<raw, fields, call, decodes, local_d, point>>

\* if self._inputs is not None: return
L142(t) ==
    /\ pc[t].line = "142"
    /\ IF ~_inputs.is_none THEN Leave(t, "cached") ELSE Goto(t, "144")
    /\ UNCHANGED <<raw, fields, call, decodes, local_d, point>>

\* the exception of deserialize(self.raw) leaves both methods
Unwind(t, raised) ==
    /\ pc' = [pc EXCEPT ![t].line = "idle", ![t].how = raised]
    /\ UNCHANGED local_d

Bound(t, d) ==
    /\ local_d' = [local_d EXCEPT ![t] = Some(d)]
    /\ Goto(t, "145")

Decoded(t, r) == IF r.raised # "" THEN Unwind(t, r.raised) ELSE Bound(t, r.d)

\* d = deserialize(self.raw)
L144(t) ==
    /\ pc[t].line = "144"
    /\ Decoded(t, deserialize(raw.v))
    /\ decodes' = decodes + 1
    /\ UNCHANGED <<raw, fields, call, point>>

\* self._inputs = d['inputs']
L145(t) ==
    /\ pc[t].line = "145"
    /\ _inputs' = Some(local_d[t].v.inputs)
    /\ Goto(t, "146")
    /\ UNCHANGED <<raw, _outputs, locktime, version, _joinsplits, joinSplitPubKey,
                   joinSplitSig, call, decodes, local_d, point>>

\* self._outputs = [(x['type'], x['address'], x['value']) for x in d['outputs']]
L146(t) ==
    /\ pc[t].line = "146"
    /\ _outputs' = Some(project_outputs(local_d[t].v.outputs))
    /\ Goto(t, "147")
    /\ UNCHANGED <<raw, _inputs, locktime, version, _joinsplits, joinSplitPubKey,
                   joinSplitSig, call, decodes, local_d, point>>

\* self.locktime = d['lockTime']
L147(t) ==
    /\ pc[t].line = "147"
    /\ locktime' = local_d[t].v.lockTime
    /\ Goto(t, "148")
    /\ UNCHANGED <<raw, _inputs, _outputs, version, _joinsplits, joinSplitPubKey,
                   joinSplitSig, call, decodes, local_d, point>>

\* self.version = d['version']
L148(t) ==
    /\ pc[t].line = "148"
    /\ version' = local_d[t].v.version
    /\ Goto(t, "150")
    /\ UNCHANGED <<raw, _inputs, _outputs, locktime, _joinsplits, joinSplitPubKey,
                   joinSplitSig, call, decodes, local_d, point>>

\* self._joinsplits = d.get('joinsplits')
L150(t) ==
    /\ pc[t].line = "150"
    /\ _joinsplits' = dict_get(local_d[t].v, "joinsplits")
    /\ Goto(t, "151")
    /\ UNCHANGED <<raw, _inputs, _outputs, locktime, version, joinSplitPubKey,
                   joinSplitSig, call, decodes, local_d, point>>

\* self.joinSplitPubKey = d.get('joinSplitPubKey')
L151(t) ==
    /\ pc[t].line = "151"
    /\ joinSplitPubKey' = dict_get(local_d[t].v, "joinSplitPubKey")
    /\ Goto(t, "152")
    /\ UNCHANGED <<raw, _inputs, _outputs, locktime, version, _joinsplits,
                   joinSplitSig, call, decodes, local_d, point>>

\* self.joinSplitSig = d.get('joinSplitSig')
L152(t) ==
    /\ pc[t].line = "152"
    /\ joinSplitSig' = dict_get(local_d[t].v, "joinSplitSig")
    /\ Goto(t, "153")
    /\ UNCHANGED <<raw, _inputs, _outputs, locktime, version, _joinsplits,
                   joinSplitPubKey, call, decodes, local_d, point>>

\* return d
L153(t) ==
    /\ pc[t].line = "153"
    /\ Leave(t, "parsed")
    /\ UNCHANGED <<raw, fields, call, decodes, local_d, point>>

NextThreads ==
    \E t \in Thread :
        \/ Enter(t)
        \/ L135(t)
        \/ L137(t)
        \/ L140(t)
        \/ L142(t)
        \/ L144(t)
        \/ L145(t)
        \/ L146(t)
        \/ L147(t)
        \/ L148(t)
        \/ L150(t)
        \/ L151(t)
        \/ L152(t)
        \/ L153(t)

SpecThreads == InitThreads /\ [][NextThreads]_vars

\* the cached fields hold what the decode of the raw bytes gives
FullyPopulated ==
    Self = populate(ZcashTransaction__init__(raw), deserialize(raw.v).d)

\* C6: in every interleaving, a call that has found the cache marked
\* populated (_inputs set) and returned without parsing sees every cached
\* field holding its decoded value, and a joinsplits() call that returned
\* that way returned the decoded joinsplits
C6_ObserversSeeFullCache ==
    \A t \in Thread :
        pc[t].how = "cached"
            => /\ FullyPopulated
               /\ (pc[t].method = "joinsplits" /\ pc[t].line = "idle")
                      => pc[t].ret = dict_get(deserialize(raw.v).d, "joinsplits")

=============================================================================
